---- MODULE Spec2Model ----
(***************************************************************************)
(* QwikNotes: the AI tool-orchestration loop (askAIAboutNotesAction), the  *)
(* tool dispatcher (callMCPTool) and the collaborators they touch (note    *)
(* store, Notion adapter, MCP worker).                                     *)
(*                                                                         *)
(* The repository holds two revisions of the server action:                *)
(*   "legacy"  - src/src/actions/notes-mcp.ts (worker reached with exec,   *)
(*               no Notion tools, no argument validation)                  *)
(*   "current" - src/unnamed/part_004 (worker reached through the MCP      *)
(*               client singleton, Notion tools, argument validation)      *)
(* The orchestration loop is the same in both; callMCPTool differs.  The   *)
(* variable impl selects the revision for a behaviour.                     *)
(***************************************************************************)
EXTENDS Integers, Sequences, FiniteSets, TLC

\* ------------------------------------------------------------------ bounds
\* longest batch of tool calls in one model response
MaxBatch == 2
\* number of (question, response) pairs of earlier conversation passed in
MaxPrior == 1
\* note ids a client passes to the notes actions: 1..MaxNoteId
MaxNoteId == 3

\* ------------------------------------------------------- program constants
maxIterations == 3

Impls == {"legacy", "current"}
Runs == {1, 2}
\* the runs that execute in the single-run specification
SoloRuns == {1}
Users == {"u1", "u2"}

\* ------------------------------------------------------------------- text
\* A string is a sequence of tokens.  "nn" is the blank-line separator
\* "\n\n", "sp" a blank; both are whitespace.  "undefined" is what
\* String(undefined) yields.
Whitespace == {"nn", "sp"}
\* the value of a property that is absent from the parsed arguments
Undef == <<"#undefined">>

\* JavaScript truthiness of an argument value (string or undefined)
Truthy(v) == v # Undef /\ v # <<>>

\* String(v)
String(v) == IF v = Undef THEN <<"undefined">> ELSE v

RECURSIVE TrimStart(_)
TrimStart(s) ==
  IF s # <<>> /\ Head(s) \in Whitespace THEN TrimStart(Tail(s)) ELSE s

RECURSIVE TrimEnd(_)
TrimEnd(s) ==
  IF s # <<>> /\ s[Len(s)] \in Whitespace
    THEN TrimEnd(SubSeq(s, 1, Len(s) - 1))
    ELSE s

\* String.prototype.trim
Trim(s) == TrimEnd(TrimStart(s))


\* ------------------------------------------------------------- tool calls
\* the tool catalog advertised to the model (MCP_TOOLS)
LegacyCatalog ==
  {"web_search", "analyze_notes", "get_weather", "extract_entities",
   "create_note", "update_note"}
NotionTools ==
  {"search_notion", "get_notion_page", "create_notion_page",
   "append_to_notion", "list_notion_databases"}
MCP_TOOLS(i) ==
  IF i = "legacy" THEN LegacyCatalog ELSE LegacyCatalog \cup NotionTools

\* parameters.required of a tool's descriptor (none for a name outside the
\* catalog and for list_notion_databases)
Required(toolName) ==
  CASE toolName = "web_search" -> {"query"}
    [] toolName = "analyze_notes" -> {"analysisType"}
    [] toolName = "get_weather" -> {"location"}
    [] toolName = "extract_entities" -> {"text"}
    [] toolName = "create_note" -> {"content"}
    [] toolName = "update_note" -> {"noteId", "newContent"}
    [] toolName = "search_notion" -> {"query"}
    [] toolName = "get_notion_page" -> {"pageId"}
    [] toolName = "create_notion_page" -> {"databaseId", "title", "content"}
    [] toolName = "append_to_notion" -> {"pageId", "content"}
    [] OTHER -> {}

\* tools the dispatcher forwards to the MCP worker (current revision)
mcpServerTools ==
  {"web_search", "get_weather", "extract_entities", "analyze_notes"}

\* The parsed arguments of a tool call.  json = FALSE stands for a
\* function.arguments string that is not valid JSON.
Args(j, n, c, nc, m, t, ns) ==
  [json |-> j, noteId |-> n, content |-> c, newContent |-> nc,
   mode |-> m, text |-> t, notes |-> ns]
NoArgs == Args(TRUE, 0, Undef, Undef, "undefined", Undef, Undef)

\* note ids: 1 is a note of u1, 2 a note of u2, 9 matches no note
Call(name, args) == [name |-> name, args |-> args]

\* tool calls the model may request
CreateA == Call("create_note", [NoArgs EXCEPT !.content = <<"a">>])
CreateBlank == Call("create_note", [NoArgs EXCEPT !.content = <<"sp">>])
AppendOwn ==
  Call("update_note", [NoArgs EXCEPT !.noteId = 1, !.newContent = <<"b">>])
ReplaceOwn ==
  Call("update_note",
       [NoArgs EXCEPT !.noteId = 1, !.newContent = <<"b">>, !.mode = "replace"])
ReplaceOther ==
  Call("update_note",
       [NoArgs EXCEPT !.noteId = 2, !.newContent = <<"b">>, !.mode = "replace"])
WebSearch == Call("web_search", NoArgs)
\* analyze_notes with a note list of the model's own making
AnalyzeSupplied ==
  Call("analyze_notes", [NoArgs EXCEPT !.notes = (7 :> <<"m">>)])
ExtractNoText == Call("extract_entities", NoArgs)
ExtractGiven == Call("extract_entities", [NoArgs EXCEPT !.text = <<"t">>])
UnknownCall == Call("delete_note", NoArgs)
BadJSON == Call("update_note", [NoArgs EXCEPT !.json = FALSE])

\* The model draws the tool calls of one conversation from one menu.
NoteMenu == {CreateA, CreateBlank}
CreateMenu == {CreateA}
OwnerMenu == {AppendOwn, ReplaceOther, WebSearch}
ModeMenu == {AppendOwn, ReplaceOwn}
RoutingMenu == {WebSearch, UnknownCall, BadJSON}
\* a conversation whose tool calls all go to the worker
WorkerMenu == {WebSearch}
\* a conversation whose tool calls all append to the user's note
AppendMenu == {AppendOwn}
\* conversations that change a note and hand notes or text to the worker
AnalyzeMenu == {AnalyzeSupplied, AppendOwn}
ExtractMenu == {ExtractNoText, ExtractGiven, CreateA}
NotionMenuA ==
  {Call(n, NoArgs) :
     n \in {"search_notion", "get_notion_page", "create_notion_page"}}
NotionMenuB ==
  {Call(n, NoArgs) : n \in {"append_to_notion", "list_notion_databases"}}
  \cup {UnknownCall}
Menus ==
  {NoteMenu, OwnerMenu, ModeMenu, RoutingMenu, NotionMenuA, NotionMenuB}

\* ------------------------------------------------------------------ state
VARIABLES
  impl,               \* which revision of the server action runs
  mcpServerPath,      \* process.env.MCP_SERVER_PATH is set (legacy)
  menu,               \* the tool calls the model draws from
  noteTable,          \* prisma.note: id -> [authorId, text]
  nextNoteId,         \* the id the store gives the next created note
  userTable,          \* prisma.user: user -> notionAccessToken
  mcpClientInstance,  \* the MCP client singleton
  pc,                 \* per run: where the run is
  notes,              \* per run: the user's notes fetched at run start
  notionAccessToken,  \* per run: the credential read at run start
  messages,           \* per run: the conversation, from the last
                      \*   assistant turn with tool calls on
  assistantMessage,   \* per run: the last model response
  idx,                \* per run: position of the for loop in tool_calls
  iterations,         \* per run: the loop counter
  noteCreated,        \* per run: side-effect flag
  noteUpdated,        \* per run: side-effect flag
  currentNote,        \* per run: the note update_note read with findFirst
  inflight,           \* per run: the request awaited from worker or Notion
  modelCalls,         \* per run: completion calls made so far
  succeeded,          \* per run: has a create_note / update_note call
                      \*   returned success
  dropped,            \* per run: tool calls of the last response that
                      \*   the run returned without dispatching
  connections,        \* worker connections opened so far
  teardown,           \* how the last run of the beforeExit handler ended
  caller,             \* the logged-in user who made the last call of a
                      \*   notes or settings action
  result              \* per run: what the action returned

vars ==
  <<impl, mcpServerPath, menu, noteTable, nextNoteId, userTable, mcpClientInstance, pc,
    notes, notionAccessToken, messages, assistantMessage, idx, iterations,
    noteCreated, noteUpdated, currentNote, inflight, modelCalls, succeeded,
    dropped, connections, teardown, caller, result>>

shared == <<impl, mcpServerPath, menu, userTable, teardown, caller>>

\* getUser(): the logged-in user on whose behalf run r executes
getUser(r) == "u1"

NoToken == "none"
NoNote == [id |-> 0, text |-> <<>>]
NoRequest == [to |-> "none", name |-> "", notes |-> <<>>, text |-> Undef]
NoResult ==
  [kind |-> "none", response |-> "", noteCreated |-> FALSE,
   noteUpdated |-> FALSE]
NoMessage == [content |-> "", tool_calls |-> <<>>]
\* the singleton: exists says mcpClientInstance is not null, client that
\* its fields client and transport are set (connect sets both, disconnect
\* clears both), isConnected is its field of that name
NoClient == [exists |-> FALSE, client |-> FALSE, isConnected |-> FALSE]

\* The content of a turn: error says whether the JSON text carries an
\* "error" key, text what it says.
Thrown(msg) == [error |-> TRUE, text |-> msg]
Returned(what) == [error |-> FALSE, text |-> what]

\* a conversation turn
Turn(role, id, calls, content) ==
  [role |-> role, tool_call_id |-> id, tool_calls |-> calls,
   content |-> content]

\* prisma.note.findMany({where: {authorId}}): the user's notes, as id -> text
FindMany(table, userId) ==
  [n \in {m \in DOMAIN table : table[m].authorId = userId} |-> table[n].text]

\* the developer prompt followed by the earlier conversation and the question
RECURSIVE History(_)
History(prior) ==
  IF prior = 0
    THEN <<Turn("developer", 0, <<>>, Returned("text")), Turn("user", 0, <<>>, Returned("text"))>>
    ELSE <<Turn("developer", 0, <<>>, Returned("text")), Turn("user", 0, <<>>, Returned("text")),
           Turn("assistant", 0, <<>>, Returned("text"))>>
         \o Tail(History(prior - 1))

\* (a note is created with the empty text: createNoteAction)
InitialNoteTables ==
  { (1 :> [authorId |-> "u1", text |-> <<"a">>]) @@
    (2 :> [authorId |-> "u2", text |-> <<"c">>]),
    (1 :> [authorId |-> "u1", text |-> <<>>]) @@
    (2 :> [authorId |-> "u2", text |-> <<"c">>]),
    (2 :> [authorId |-> "u2", text |-> <<"c">>]) }

\* the state before any run has started, the conversation drawn from one of
\* the given menus
InitWith(menus) ==
  /\ impl \in Impls
  /\ mcpServerPath \in (IF impl = "legacy" THEN BOOLEAN ELSE {TRUE})
  /\ menu \in menus
  /\ noteTable \in InitialNoteTables
  /\ nextNoteId = 3
  /\ userTable \in {[u \in Users |-> IF u = "u1" THEN t ELSE NoToken] :
                      t \in (IF impl = "legacy" THEN {NoToken}
                                                 ELSE {NoToken, "tok"})}
  /\ mcpClientInstance = NoClient
  /\ pc = [r \in Runs |-> "idle"]
  /\ notes = [r \in Runs |-> <<>>]
  /\ notionAccessToken = [r \in Runs |-> NoToken]
  /\ messages = [r \in Runs |-> <<>>]
  /\ assistantMessage = [r \in Runs |-> NoMessage]
  /\ idx = [r \in Runs |-> 0]
  /\ iterations = [r \in Runs |-> 0]
  /\ noteCreated = [r \in Runs |-> FALSE]
  /\ noteUpdated = [r \in Runs |-> FALSE]
  /\ currentNote = [r \in Runs |-> NoNote]
  /\ inflight = [r \in Runs |-> NoRequest]
  /\ modelCalls = [r \in Runs |-> 0]
  /\ succeeded = [r \in Runs |-> [create |-> FALSE, update |-> FALSE]]
  /\ dropped = [r \in Runs |-> 0]
  /\ connections = 0
  /\ teardown = "none"
  /\ caller = "none"
  /\ result = [r \in Runs |-> NoResult]

Init == InitWith(Menus)

\* ------------------------------------------------------------- run start
\* askAIAboutNotesAction up to the first completion call: read the Notion
\* credential (current revision), fetch the notes, return early when there
\* are none, build the conversation.
StartRun(r) ==
  /\ pc[r] = "idle"
  /\ \E prior \in 0..MaxPrior :
       LET user == getUser(r)
           mine == FindMany(noteTable, user)
       IN /\ notionAccessToken' =
               [notionAccessToken EXCEPT ![r] =
                  IF impl = "current" THEN userTable[user] ELSE NoToken]
          /\ notes' = [notes EXCEPT ![r] = mine]
          /\ IF DOMAIN mine = {}
               THEN /\ result' = [result EXCEPT ![r] =
                                    [NoResult EXCEPT !.kind = "plain",
                                                     !.response = "nonotes"]]
                    /\ pc' = [pc EXCEPT ![r] = "done"]
                    /\ UNCHANGED messages
               ELSE /\ messages' = [messages EXCEPT ![r] = History(prior)]
                    /\ pc' = [pc EXCEPT ![r] = "awaitModel"]
                    /\ UNCHANGED result
  /\ UNCHANGED <<shared, dropped, connections,
                 noteTable, nextNoteId, mcpClientInstance,
                 assistantMessage, idx, iterations, noteCreated, noteUpdated,
                 currentNote, inflight, modelCalls, succeeded>>

\* -------------------------------------------------------- model completion
\* every batch of at most MaxBatch tool calls of a menu
Batches(calls) == UNION {[1..k -> calls] : k \in 0..MaxBatch}

\* What openai.chat.completions.create can do: fail, or answer with a text
\* (possibly empty) and a (possibly empty) list of tool calls.
ModelReplies(calls) ==
  [fail : {TRUE}, content : {""}, calls : {<<>>}]
  \cup [fail : {FALSE}, content : {"", "text"}, calls : Batches(calls)]

\* the tool calls of the k-th response, with their ids (unique in the run)
WithIds(calls, k) ==
  [p \in 1..Len(calls) |->
     [id |-> 10 * k + p, name |-> calls[p].name, args |-> calls[p].args]]

Ids(tool_calls) == [p \in 1..Len(tool_calls) |-> tool_calls[p].id]

\* a while condition without the cap (the variation CapEndsRunNormally
\* excludes)
LoopCondUncapped(tool_calls, it) == Len(tool_calls) > 0

\* a while condition that lets the counter pass the maximum (the variation
\* IterationsBounded excludes)
LoopCondInclusive(tool_calls, it) ==
  Len(tool_calls) > 0 /\ it <= maxIterations

\* the while condition of the tool loop
LoopCond(tool_calls, it) == Len(tool_calls) > 0 /\ it < maxIterations

\* the payload returned after the loop
FinalPayload(content, created, updated) ==
  [kind |-> "json",
   response |-> IF content # "" THEN content ELSE "fallback",
   noteCreated |-> created, noteUpdated |-> updated]

\* an error payload that reports the flags the run had reached (the
\* variation ModelFailureEndsRun excludes)
ErrorPayloadWithFlags(created, updated) ==
  [kind |-> "json", response |-> "error", noteCreated |-> created,
   noteUpdated |-> updated]

\* the payload returned by the outer catch
ErrorPayload(created, updated) ==
  [kind |-> "json", response |-> "error", noteCreated |-> FALSE,
   noteUpdated |-> FALSE]

\* the action returns payload: its locals (the conversation, the last
\* response, the loop position) are gone
Return(r, payload) ==
  /\ result' = [result EXCEPT ![r] = payload]
  /\ pc' = [pc EXCEPT ![r] = "done"]
  /\ messages' = [messages EXCEPT ![r] = <<>>]
  /\ assistantMessage' = [assistantMessage EXCEPT ![r] = NoMessage]
  /\ idx' = [idx EXCEPT ![r] = 0]

\* the outer catch: the run ends with the error payload
Abort(r) == Return(r, ErrorPayload(noteCreated[r], noteUpdated[r]))

\* messages.push(turn).  The array is only ever appended to and the code
\* never reads it back, so the model keeps its tail: the turns from the last
\* assistant turn that requested tool calls (before the first one, the
\* whole conversation).
Push(msgs, turn) ==
  IF turn.role = "assistant" THEN <<turn>> ELSE Append(msgs, turn)

\* the assistant turn pushed at the top of a loop iteration
\* (of a turn's text the model keeps what kind it is, not the wording)
AssistantTurn(am) ==
  Turn("assistant", 0, Ids(am.tool_calls), Returned("text"))

\* A completion call returns rep: on failure the outer catch ends the run;
\* otherwise the while condition decides between one more iteration
\* (count it, push the assistant turn, start the for loop) and the return.
Complete(r, rep) ==
  /\ modelCalls' = [modelCalls EXCEPT ![r] = @ + 1]
  /\ IF rep.fail
       THEN /\ Abort(r)
            /\ UNCHANGED <<iterations, dropped>>
       ELSE LET am == [content |-> rep.content,
                       tool_calls |-> WithIds(rep.calls, modelCalls[r] + 1)]
            IN IF LoopCond(am.tool_calls, iterations[r])
                    THEN /\ assistantMessage' =
                              [assistantMessage EXCEPT ![r] = am]
                         /\ iterations' = [iterations EXCEPT ![r] = @ + 1]
                         /\ messages' = [messages EXCEPT ![r] =
                                           Push(@, AssistantTurn(am))]
                         /\ idx' = [idx EXCEPT ![r] = 1]
                         /\ pc' = [pc EXCEPT ![r] = "dispatch"]
                         /\ UNCHANGED <<result, dropped>>
                    ELSE /\ Return(r, FinalPayload(am.content, noteCreated[r],
                                                   noteUpdated[r]))
                         /\ dropped' = [dropped EXCEPT ![r] =
                                           Len(am.tool_calls)]
                         /\ UNCHANGED iterations
  /\ UNCHANGED <<shared, connections,
                 noteTable, nextNoteId, mcpClientInstance, notes,
                 notionAccessToken, noteCreated, noteUpdated, currentNote,
                 inflight, succeeded>>

\* the initial completion call
InitialCompletion(r) ==
  /\ pc[r] = "awaitModel"
  /\ modelCalls[r] = 0
  /\ \E rep \in ModelReplies(menu) : Complete(r, rep)

\* the completion call at the end of a loop iteration
NextCompletion(r) ==
  /\ pc[r] = "awaitModel"
  /\ modelCalls[r] > 0
  /\ \E rep \in ModelReplies(menu) : Complete(r, rep)

\* ------------------------------------------------------------ the for loop
\* the tool call the for loop is at
ToolCall(r) == assistantMessage[r].tool_calls[idx[r]]

\* JSON.parse(toolCall.function.arguments) throws on a malformed string
JSONParseThrows(args) == ~args.json

\* "Track if create_note or update_note was called"
FlagCreated(old, toolName) == old \/ toolName = "create_note"
FlagUpdated(old, toolName) == old \/ toolName = "update_note"

\* flags kept in one place for all runs (the variation FlagsAreRunLocal
\* excludes)
SetFlagsShared(r) ==
  /\ noteCreated' =
       [q \in Runs |-> FlagCreated(noteCreated[q], ToolCall(r).name)]
  /\ noteUpdated' =
       [q \in Runs |-> FlagUpdated(noteUpdated[q], ToolCall(r).name)]

\* the flags are locals of the run
SetFlags(r) ==
  /\ noteCreated' =
       [noteCreated EXCEPT ![r] = FlagCreated(@, ToolCall(r).name)]
  /\ noteUpdated' =
       [noteUpdated EXCEPT ![r] = FlagUpdated(@, ToolCall(r).name)]

\* a tool turn that does not name its call (the variation
\* ToolTurnsAnswerCalls excludes)
ToolTurnUnlabelled(toolCall, content) == Turn("tool", 0, <<>>, content)

\* the tool turn pushed for a call, by the try and by the catch alike
ToolTurn(toolCall, content) == Turn("tool", toolCall.id, <<>>, content)

\* a for loop after which no completion call is made (the variation
\* RunsTerminate excludes)
AfterCallLost(i, n) == IF i < n THEN "dispatch" ELSE "lost"

\* where the for loop goes after the call at position i of n
AfterCall(i, n) == IF i < n THEN "dispatch" ELSE "awaitModel"

\* a for loop without the inner catch: a thrown error reaches the outer
\* catch and ends the run (the variation HandlerErrorsStayLocal excludes)
FinishCallPropagating(r, content) ==
  IF content.error
    THEN Return(r, ErrorPayload(noteCreated[r], noteUpdated[r]))
    ELSE LET next == AfterCall(idx[r], Len(assistantMessage[r].tool_calls))
         IN /\ messages' = [messages EXCEPT ![r] =
                  Push(@, Turn("tool", ToolCall(r).id, <<>>, content))]
            /\ pc' = [pc EXCEPT ![r] = next]
            /\ idx' = [idx EXCEPT ![r] = IF next = "dispatch" THEN @ + 1 ELSE 0]
            /\ assistantMessage' =
                 [assistantMessage EXCEPT ![r] =
                    IF next = "dispatch" THEN @ ELSE NoMessage]
            /\ UNCHANGED result

\* A call is over: push its tool turn and move to the next call, or to the
\* next completion call after the last one (the response is not read again
\* before that call overwrites it).
FinishCall(r, content) ==
  LET next == AfterCall(idx[r], Len(assistantMessage[r].tool_calls))
  IN /\ messages' = [messages EXCEPT ![r] =
                       Push(@, ToolTurn(ToolCall(r), content))]
     /\ pc' = [pc EXCEPT ![r] = next]
     /\ idx' = [idx EXCEPT ![r] = IF next = "dispatch" THEN @ + 1 ELSE 0]
     /\ assistantMessage' =
          [assistantMessage EXCEPT ![r] =
             IF next = "dispatch" THEN @ ELSE NoMessage]
     /\ UNCHANGED result

\* the branch of callMCPTool a tool name takes
Route(i, toolName) ==
  CASE toolName = "create_note" -> "create"
    [] toolName = "update_note" -> "update"
    [] OTHER ->
         IF i = "legacy" THEN "worker"
         ELSE IF toolName \in mcpServerTools THEN "worker"
         ELSE IF toolName \in NotionTools THEN "notion"
         ELSE "unknown"

\* The arguments cannot be parsed: JSON.parse throws outside the inner try,
\* so the outer catch ends the run.
DispatchBadArguments(r) ==
  /\ pc[r] = "dispatch"
  /\ JSONParseThrows(ToolCall(r).args)
  /\ Abort(r)
  /\ UNCHANGED <<shared, dropped, connections,
                 noteTable, nextNoteId, mcpClientInstance, notes,
                 notionAccessToken, iterations, noteCreated, noteUpdated,
                 currentNote, inflight, modelCalls, succeeded>>

\* ------------------------------------------------------------ create_note
\* the text create_note stores
CreateContent(i, args) ==
  IF i = "legacy" THEN String(args.content)
  ELSE IF Truthy(args.content) THEN String(args.content) ELSE <<>>

\* "Validate content" (current revision only)
CreateRejects(i, content) == i = "current" /\ Trim(content) = <<>>

\* create_note: validation, prisma.note.create (which may fail), result
DispatchCreateNote(r) ==
  /\ pc[r] = "dispatch"
  /\ ~JSONParseThrows(ToolCall(r).args)
  /\ Route(impl, ToolCall(r).name) = "create"
  /\ SetFlags(r)
  /\ LET content == CreateContent(impl, ToolCall(r).args)
     IN IF CreateRejects(impl, content)
          THEN /\ FinishCall(r, Thrown("create_note:empty content"))
               /\ UNCHANGED <<noteTable, nextNoteId, succeeded>>
          ELSE \E stored \in BOOLEAN :
                 IF stored
                   THEN /\ noteTable' = noteTable @@
                             (nextNoteId :> [authorId |-> getUser(r),
                                             text |-> content])
                        /\ nextNoteId' = nextNoteId + 1
                        /\ succeeded' = [succeeded EXCEPT ![r].create = TRUE]
                        /\ FinishCall(r, Returned("created"))
                   ELSE /\ FinishCall(r, Thrown("create_note:store error"))
                        /\ UNCHANGED <<noteTable, nextNoteId, succeeded>>
  /\ UNCHANGED <<shared, dropped, connections,
                 mcpClientInstance, notes, notionAccessToken,
                 iterations, currentNote, inflight, modelCalls>>

\* ------------------------------------------------------------ update_note
\* the new content update_note works with
UpdateContent(i, args) ==
  IF i = "legacy" THEN String(args.newContent)
  ELSE IF Truthy(args.newContent) THEN String(args.newContent) ELSE <<>>

\* "Validate that we have content to add" (current revision only)
UpdateRejects(i, newContent) == i = "current" /\ newContent = <<>>

\* String(args.mode || "append")
UpdateMode(args) == IF args.mode = "undefined" THEN "append" ELSE args.mode

\* a lookup by id alone (the variation UpdateKeepsToOwner excludes)
FindFirstById(table, noteId, userId) == noteId \in DOMAIN table

\* prisma.note.findFirst({where: {id, authorId}}): is there such a note
FindFirst(table, noteId, userId) ==
  noteId \in DOMAIN table /\ table[noteId].authorId = userId

\* the text as it was when the run fetched its notes (the variation
\* BatchRunsInOrder excludes)
CurrentTextAtStart(table, fetched, noteId) == fetched[noteId]

\* currentNote.text: the text of the note findFirst returned, read from the
\* store and not from the notes fetched at run start
CurrentText(table, fetched, noteId) == table[noteId].text

\* a text preparation that appends in every mode (the variation
\* ReplaceStoresNewContent excludes)
UpdatedTextAppendOnly(i, mode, oldText, newContent) ==
  oldText \o (IF oldText # <<>> THEN <<"nn">> ELSE <<>>) \o newContent

\* "Prepare the new text based on mode"
UpdatedText(i, mode, oldText, newContent) ==
  IF mode = "replace" THEN newContent
  ELSE IF i = "legacy" THEN oldText \o <<"nn">> \o newContent
  ELSE oldText \o (IF oldText # <<>> THEN <<"nn">> ELSE <<>>) \o newContent

\* update_note up to the end of findFirst
DispatchUpdateNote(r) ==
  /\ pc[r] = "dispatch"
  /\ ~JSONParseThrows(ToolCall(r).args)
  /\ Route(impl, ToolCall(r).name) = "update"
  /\ SetFlags(r)
  /\ LET args == ToolCall(r).args
     IN IF UpdateRejects(impl, UpdateContent(impl, args))
          THEN /\ FinishCall(r, Thrown("update_note:no content"))
               /\ UNCHANGED currentNote
          ELSE IF FindFirst(noteTable, args.noteId, getUser(r))
            THEN /\ currentNote' = [currentNote EXCEPT ![r] =
                        [id |-> args.noteId,
                         text |-> CurrentText(noteTable, notes[r], args.noteId)]]
                 /\ pc' = [pc EXCEPT ![r] = "updateWrite"]
                 /\ UNCHANGED <<messages, idx, assistantMessage, result>>
            ELSE /\ FinishCall(r, Thrown("update_note:not found"))
                 /\ UNCHANGED currentNote
  /\ UNCHANGED <<shared, dropped, connections,
                 noteTable, nextNoteId, mcpClientInstance, notes,
                 notionAccessToken, iterations, inflight, modelCalls,
                 succeeded>>

\* update_note from prisma.note.update on: the write, which fails when the
\* note is gone or the store reports an error
UpdateWrite(r) ==
  /\ pc[r] = "updateWrite"
  /\ LET args == ToolCall(r).args
         id == currentNote[r].id
         updatedText == UpdatedText(impl, UpdateMode(args), currentNote[r].text,
                                    UpdateContent(impl, args))
     IN \E stored \in BOOLEAN :
          IF stored /\ id \in DOMAIN noteTable
            THEN /\ noteTable' = [noteTable EXCEPT ![id].text = updatedText]
                 /\ succeeded' = [succeeded EXCEPT ![r].update = TRUE]
                 /\ FinishCall(r, Returned("updated"))
            ELSE /\ FinishCall(r, Thrown("update_note:store error"))
                 /\ UNCHANGED <<noteTable, succeeded>>
  /\ currentNote' = [currentNote EXCEPT ![r] = NoNote]
  /\ UNCHANGED <<shared, dropped, connections,
                 nextNoteId, mcpClientInstance, notes,
                 notionAccessToken, iterations, noteCreated, noteUpdated,
                 inflight, modelCalls>>

\* ------------------------------------------------------------ worker tools
\* "Special handling for analyze_notes": the notes handed to the worker
\* (the variation WorkerGetsFetchedNotes excludes: the model's list is kept)
McpNotesFromModel(toolName, args, fetched) ==
  IF toolName = "analyze_notes" /\ args.notes = Undef THEN fetched
  ELSE args.notes

\* "Special handling for analyze_notes": the notes handed to the worker are
\* the notes fetched at the start of the run (never empty there, so the
\* test "&& notes" always passes); other tools get what the model gave
McpNotes(toolName, args, fetched) ==
  IF toolName = "analyze_notes" THEN fetched ELSE args.notes

\* notes.map((n) => n.text).join("\n\n"), the notes ordered by createdAt
\* descending (the store numbers notes in the order of their creation)
RECURSIVE JoinTexts(_)
JoinTexts(fetched) ==
  IF DOMAIN fetched = {} THEN <<>>
  ELSE LET n == CHOOSE m \in DOMAIN fetched :
                  \A k \in DOMAIN fetched : k <= m
           rest == [k \in DOMAIN fetched \ {n} |-> fetched[k]]
       IN IF DOMAIN rest = {} THEN fetched[n]
          ELSE fetched[n] \o <<"nn">> \o JoinTexts(rest)

\* "Special handling for extract_entities": the text handed to the worker
McpText(toolName, args, fetched) ==
  IF toolName = "extract_entities" /\ ~Truthy(args.text)
    THEN JoinTexts(fetched) ELSE args.text

\* the tools/call request for a tool call
Request(toolName, args, fetched) ==
  [to |-> "worker", name |-> toolName,
   notes |-> McpNotes(toolName, args, fetched),
   text |-> McpText(toolName, args, fetched)]

\* the stub returned when MCP_SERVER_PATH is not set (legacy revision): an
\* object with an "error" key, returned and not thrown
Stub == [error |-> TRUE, text |-> "stub:unavailable"]

\* getMCPClient up to its await, for a caller that finds no instance: the
\* singleton is assigned before connect() is awaited, but the variation
\* OneWorkerConnection excludes assigns it after
InstanceOnGetDeferred(inst) == inst

\* getMCPClient up to its await, for a caller that finds no instance:
\* mcpClientInstance = new MCPClient() comes before the await
InstanceOnGet(inst) ==
  [exists |-> TRUE, client |-> TRUE, isConnected |-> FALSE]

\* some run is inside await mcpClientInstance.connect()
Connecting == \E r \in Runs : pc[r] = "awaitConnect"

\* the request of the call at hand goes to the worker
SendToWorker(r) ==
  /\ inflight' = [inflight EXCEPT ![r] =
       Request(ToolCall(r).name, ToolCall(r).args, notes[r])]
  /\ pc' = [pc EXCEPT ![r] = "awaitWorker"]
  /\ UNCHANGED <<messages, idx, assistantMessage, result>>

\* A call is forwarded to the worker.  Legacy revision: every name that is
\* not create_note or update_note; without MCP_SERVER_PATH the stub is the
\* result.  Current revision: the names in mcpServerTools, through the
\* client singleton.  The caller that finds no instance creates it and
\* waits for connect(); a caller that finds one uses it as it is: connected,
\* failed to connect (the call throws), or still connecting for another
\* caller (the call is sent or throws, as the client library decides).
DispatchWorkerTool(r) ==
  /\ pc[r] = "dispatch"
  /\ ~JSONParseThrows(ToolCall(r).args)
  /\ Route(impl, ToolCall(r).name) = "worker"
  /\ SetFlags(r)
  /\ IF impl = "legacy"
       THEN /\ UNCHANGED <<mcpClientInstance, connections>>
            /\ IF mcpServerPath
                 THEN SendToWorker(r)
                 ELSE /\ FinishCall(r, Stub)
                      /\ UNCHANGED inflight
       ELSE IF ~mcpClientInstance.exists
         THEN /\ mcpClientInstance' = InstanceOnGet(mcpClientInstance)
              /\ connections' = connections + 1
              /\ pc' = [pc EXCEPT ![r] = "awaitConnect"]
              /\ UNCHANGED <<messages, idx, assistantMessage, result,
                             inflight>>
         ELSE /\ UNCHANGED <<mcpClientInstance, connections>>
              /\ IF ~mcpClientInstance.client
                   THEN /\ FinishCall(r, Thrown("mcp:not connected"))
                        /\ UNCHANGED inflight
                   ELSE \/ /\ mcpClientInstance.isConnected \/ Connecting
                           /\ SendToWorker(r)
                        \/ /\ ~mcpClientInstance.isConnected
                           /\ FinishCall(r, Thrown("mcp:unconnected client"))
                           /\ UNCHANGED inflight
  /\ UNCHANGED <<shared, dropped, noteTable, nextNoteId, notes,
                 notionAccessToken, iterations, currentNote, modelCalls,
                 succeeded>>

\* await mcpClientInstance.connect() is over: connected, and the request
\* goes to the worker, or not, and the error is thrown to the for loop
ConnectReply(r) ==
  /\ pc[r] = "awaitConnect"
  /\ \E connected \in BOOLEAN :
       /\ mcpClientInstance' =
            [exists |-> TRUE, client |-> TRUE, isConnected |-> connected]
       /\ IF connected
            THEN SendToWorker(r)
            ELSE /\ FinishCall(r, Thrown("mcp:connect failed"))
                 /\ UNCHANGED inflight
  /\ UNCHANGED <<shared, dropped, connections, noteTable, nextNoteId, notes,
                 notionAccessToken, iterations, noteCreated, noteUpdated,
                 currentNote, modelCalls, succeeded>>

\* what the worker can answer: a content item holding JSON text, one holding
\* other text (its "Error: ..." replies), a response without content, or a
\* failure of the exchange
WorkerReplies == {"json", "text", "envelope", "throw"}

\* what callMCPTool makes of the worker's answer
WorkerResult(i, reply) ==
  CASE reply = "json" -> Returned("worker:json")
    [] reply = "text" ->
         IF i = "legacy" THEN Thrown("mcp:bad json")
                         ELSE Returned("worker:text")
    [] reply = "envelope" -> Returned("worker:envelope")
    [] OTHER -> Thrown("mcp:worker failed")

\* the worker's answer arrives
WorkerReply(r) ==
  /\ pc[r] = "awaitWorker"
  /\ \E reply \in WorkerReplies : FinishCall(r, WorkerResult(impl, reply))
  /\ inflight' = [inflight EXCEPT ![r] = NoRequest]
  /\ UNCHANGED <<shared, dropped, connections,
                 noteTable, nextNoteId, mcpClientInstance, notes,
                 notionAccessToken, iterations, noteCreated, noteUpdated,
                 currentNote, modelCalls, succeeded>>

\* a worker call without a time limit (the variation WorkerCallsAreTimed
\* excludes)
NeverTimesOut(i) == FALSE

\* The wait for the worker's answer is limited: exec is given
\* {timeout: 30000} (legacy revision); the request of the MCP client rejects
\* when its time is up (current revision).
TimesOut(i) == TRUE

\* No answer came in time: the wait ends with an error, which callMCPTool
\* rethrows and the for loop turns into the tool turn of this call.
WorkerTimeout(r) ==
  /\ pc[r] = "awaitWorker"
  /\ TimesOut(impl)
  /\ FinishCall(r, Thrown("mcp:timeout"))
  /\ inflight' = [inflight EXCEPT ![r] = NoRequest]
  /\ UNCHANGED <<shared, dropped, connections,
                 noteTable, nextNoteId, mcpClientInstance, notes,
                 notionAccessToken, iterations, noteCreated, noteUpdated,
                 currentNote, modelCalls, succeeded>>

\* a disconnect that does not look at its fields first (the variation
\* TeardownIsSafe excludes)
DisconnectActsAlways(inst) == TRUE

\* if (this.client && this.transport): the guard of MCPClient.disconnect
DisconnectActs(inst) == inst.client

\* The beforeExit handler runs; the process emits beforeExit when nothing
\* is pending, so no run is in the middle of an awaited call.  Without an
\* instance it does nothing; otherwise it awaits disconnect(), which closes
\* the client and clears the fields, or leaves them when close() fails.
BeforeExit ==
  /\ \A r \in Runs : pc[r] \in {"idle", "done"}
  /\ IF mcpClientInstance.exists /\ DisconnectActs(mcpClientInstance)
       THEN IF mcpClientInstance.client
              THEN \E closed \in BOOLEAN :
                     IF closed
                       THEN /\ mcpClientInstance' =
                                 [exists |-> TRUE, client |-> FALSE,
                                  isConnected |-> FALSE]
                            /\ teardown' = "closed"
                       ELSE /\ teardown' = "close failed"
                            /\ UNCHANGED mcpClientInstance
              ELSE /\ teardown' = "no client to close"
                   /\ UNCHANGED mcpClientInstance
       ELSE /\ teardown' = "skipped"
            /\ UNCHANGED mcpClientInstance
  /\ UNCHANGED <<impl, mcpServerPath, menu, userTable, caller, noteTable,
                 nextNoteId, pc, notes, notionAccessToken, messages, assistantMessage,
                 idx, iterations, noteCreated, noteUpdated, currentNote,
                 inflight, modelCalls, succeeded, dropped, connections,
                 result>>

\* ------------------------------------------------------------ Notion tools
\* a Notion case without the guard (the variation
\* NotionNeedsCredential excludes)
NotionNeverRejects(token) == FALSE

\* if (!notionAccessToken) throw: the guard of every Notion case
NotionRejects(token) == token = NoToken

\* a credential looked up again at every call (the variation
\* CredentialReadOnce excludes)
TokenReadAtCall(r) == userTable[getUser(r)]

\* the credential callMCPTool is given: the local read at the start of the run
TokenForCall(r) == notionAccessToken[r]

\* a Notion tool: without a credential it fails before any request is made
DispatchNotionTool(r) ==
  /\ pc[r] = "dispatch"
  /\ ~JSONParseThrows(ToolCall(r).args)
  /\ Route(impl, ToolCall(r).name) = "notion"
  /\ SetFlags(r)
  /\ IF NotionRejects(TokenForCall(r))
       THEN /\ FinishCall(r, Thrown("mcp:Notion is not connected"))
            /\ UNCHANGED inflight
       ELSE /\ inflight' = [inflight EXCEPT ![r] =
                 [NoRequest EXCEPT !.to = "notion", !.name = ToolCall(r).name]]
            /\ pc' = [pc EXCEPT ![r] = "awaitNotion"]
            /\ UNCHANGED <<messages, idx, assistantMessage, result>>
  /\ UNCHANGED <<shared, dropped, connections,
                 noteTable, nextNoteId, mcpClientInstance, notes,
                 notionAccessToken, iterations, currentNote, modelCalls,
                 succeeded>>

\* the Notion API answers or fails
NotionReply(r) ==
  /\ pc[r] = "awaitNotion"
  /\ \E ok \in BOOLEAN :
       FinishCall(r, IF ok THEN Returned("notion:ok")
                           ELSE Thrown("mcp:notion failed"))
  /\ inflight' = [inflight EXCEPT ![r] = NoRequest]
  /\ UNCHANGED <<shared, dropped, connections,
                 noteTable, nextNoteId, mcpClientInstance, notes,
                 notionAccessToken, iterations, noteCreated, noteUpdated,
                 currentNote, modelCalls, succeeded>>

\* ------------------------------------------------------------ unknown tools
\* default: throw new Error(`Unknown MCP tool: ...`) (current revision)
DispatchUnknownTool(r) ==
  /\ pc[r] = "dispatch"
  /\ ~JSONParseThrows(ToolCall(r).args)
  /\ Route(impl, ToolCall(r).name) = "unknown"
  /\ SetFlags(r)
  /\ FinishCall(r, Thrown("mcp:Unknown MCP tool"))
  /\ UNCHANGED <<shared, dropped, connections,
                 noteTable, nextNoteId, mcpClientInstance, notes,
                 notionAccessToken, iterations, currentNote, inflight,
                 modelCalls, succeeded>>

\* ------------------------------------------------------------------- runs
RunStep(r) ==
  \/ StartRun(r)
  \/ InitialCompletion(r)
  \/ NextCompletion(r)
  \/ DispatchBadArguments(r)
  \/ DispatchCreateNote(r)
  \/ DispatchUpdateNote(r)
  \/ UpdateWrite(r)
  \/ DispatchWorkerTool(r)
  \/ ConnectReply(r)
  \/ WorkerReply(r)
  \/ DispatchNotionTool(r)
  \/ NotionReply(r)
  \/ DispatchUnknownTool(r)

Next == \E r \in SoloRuns : RunStep(r)

Spec == Init /\ [][Next]_vars

\* ------------------------------------------------------------- scheduling
\* The steps a run takes by itself or that are bound to come: the code is a
\* sequence of awaited calls, the model call and the store and Notion calls
\* are taken to return or fail, and the timer of a worker call fires.  The
\* answer of the worker is not among them: the worker may stay silent.
Progress(r) ==
  \/ StartRun(r)
  \/ InitialCompletion(r)
  \/ NextCompletion(r)
  \/ DispatchBadArguments(r)
  \/ DispatchCreateNote(r)
  \/ DispatchUpdateNote(r)
  \/ UpdateWrite(r)
  \/ DispatchWorkerTool(r)
  \/ ConnectReply(r)
  \/ WorkerTimeout(r)
  \/ DispatchNotionTool(r)
  \/ NotionReply(r)
  \/ DispatchUnknownTool(r)

\* the conversations the fair specification follows: one menu for each
\* kind of tool call
FairMenus == {CreateMenu, ModeMenu, RoutingMenu, NotionMenuA}

FairInit == InitWith(FairMenus)

\* the steps of the runs, the timer of a worker call included (in Spec a
\* call that ran out of time is one of the failures of the exchange with
\* the worker)
FairNext == Next \/ \E r \in SoloRuns : WorkerTimeout(r)

FairSpec ==
  FairInit /\ [][FairNext]_vars /\ \A r \in SoloRuns : WF_vars(Progress(r))

\* -------------------------------------------------------- concurrent runs
\* Two runs of the action in one server process (current revision), their
\* awaited steps interleaved in any order; every tool call goes to the
\* worker through the client singleton.
ClientInit == InitWith({WorkerMenu}) /\ impl = "current"

\* The steps of a run up to the end of its first batch of worker calls.  A
\* later batch makes the same calls on the same singleton, which by then is
\* in one of the conditions the calls of a first batch already meet: absent,
\* connecting, connected, or failed to connect.
ClientStep(r) ==
  \/ StartRun(r)
  \/ InitialCompletion(r)
  \/ DispatchWorkerTool(r)
  \/ ConnectReply(r)
  \/ WorkerReply(r)

ClientNext == \E r \in Runs : ClientStep(r)

ClientSpec == ClientInit /\ [][ClientNext]_vars

\* ------------------------------------------------- notes for the worker
\* One run whose tool calls change the user's notes and hand notes or text
\* to the worker.
ArgsMenus == {AnalyzeMenu, ExtractMenu}

ArgsInit == InitWith(ArgsMenus)

ArgsStep(r) ==
  \/ StartRun(r)
  \/ InitialCompletion(r)
  \/ NextCompletion(r)
  \/ DispatchCreateNote(r)
  \/ DispatchUpdateNote(r)
  \/ UpdateWrite(r)
  \/ DispatchWorkerTool(r)
  \/ ConnectReply(r)
  \/ WorkerReply(r)

ArgsNext == \E r \in SoloRuns : ArgsStep(r)

ArgsSpec == ArgsInit /\ [][ArgsNext]_vars

\* ------------------------------------------------- concurrent mutations
\* Two runs of the same user in one server process, each up to the end of
\* its first batch of create_note or update_note calls, their awaited steps
\* interleaved in any order.
PairMenus == {CreateMenu, AppendMenu}

PairInit == InitWith(PairMenus)

PairStep(r) ==
  \/ StartRun(r)
  \/ InitialCompletion(r)
  \/ DispatchCreateNote(r)
  \/ DispatchUpdateNote(r)
  \/ UpdateWrite(r)

PairNext == \E r \in Runs : PairStep(r)

PairSpec == PairInit /\ [][PairNext]_vars

\* ---------------------------------------------------------- process exit
\* One run with worker calls, and the beforeExit handler whenever nothing
\* is pending (current revision).
TeardownInit == InitWith({WorkerMenu}) /\ impl = "current"

TeardownNext ==
  \/ \E r \in SoloRuns : ClientStep(r) \/ NextCompletion(r)
  \/ BeforeExit

TeardownSpec == TeardownInit /\ [][TeardownNext]_vars

\* ---------------------------------------------------------- notes actions
\* the state of a run, which the notes and settings actions leave alone
runState ==
  <<pc, notes, notionAccessToken, messages, assistantMessage, idx,
    iterations, noteCreated, noteUpdated, currentNote, inflight, modelCalls,
    succeeded, dropped, result>>

\* texts the editor saves
EditTexts == {<<>>, <<"x">>}

\* prisma.note.delete: the table without note id
Without(table, id) == [n \in DOMAIN table \ {id} |-> table[n]]

\* createNoteAction(noteId) by logged-in user u: the note is created with
\* the id the client passed and the empty text; prisma rejects an id that
\* exists, and handleError returns the message
createNoteAction(u, noteId) ==
  /\ caller' = u
  /\ IF noteId \in DOMAIN noteTable
       THEN UNCHANGED noteTable
       ELSE noteTable' = noteTable @@ (noteId :> [authorId |-> u, text |-> <<>>])
  /\ UNCHANGED <<impl, mcpServerPath, menu, userTable, teardown, nextNoteId,
                 mcpClientInstance, connections, runState>>

\* updateNoteAction(noteId, text) by logged-in user u:
\* prisma.note.update({where: {id: noteId}, data: {text}})
updateNoteAction(u, noteId, text) ==
  /\ caller' = u
  /\ IF noteId \in DOMAIN noteTable
       THEN noteTable' = [noteTable EXCEPT ![noteId].text = text]
       ELSE UNCHANGED noteTable
  /\ UNCHANGED <<impl, mcpServerPath, menu, userTable, teardown, nextNoteId,
                 mcpClientInstance, connections, runState>>

\* deleteNoteAction(noteId) by logged-in user u:
\* prisma.note.delete({where: {id: noteId, authorId: user.id}})
deleteNoteAction(u, noteId) ==
  /\ caller' = u
  /\ IF noteId \in DOMAIN noteTable /\ noteTable[noteId].authorId = u
       THEN noteTable' = Without(noteTable, noteId)
       ELSE UNCHANGED noteTable
  /\ UNCHANGED <<impl, mcpServerPath, menu, userTable, teardown, nextNoteId,
                 mcpClientInstance, connections, runState>>

\* the notes actions called in any order by the logged-in users
NotesInit == InitWith({NoteMenu}) /\ impl = "current"

NotesNext ==
  \E u \in Users : \E noteId \in 1..MaxNoteId :
    \/ createNoteAction(u, noteId)
    \/ \E text \in EditTexts : updateNoteAction(u, noteId, text)
    \/ deleteNoteAction(u, noteId)

NotesSpec == NotesInit /\ [][NotesNext]_vars

\* -------------------------------------------------------- Notion settings
\* disconnectNotionAction by logged-in user u: the Notion fields of the
\* user's row are set to null, unless the store fails
disconnectNotionAction(u) ==
  /\ caller' = u
  /\ \E stored \in BOOLEAN :
       userTable' = IF stored THEN [userTable EXCEPT ![u] = NoToken]
                              ELSE userTable
  /\ UNCHANGED <<impl, mcpServerPath, menu, teardown, noteTable, nextNoteId,
                 mcpClientInstance, connections, runState>>

\* One run with Notion tool calls (current revision), and the users
\* disconnecting Notion at any time.
NotionInit == InitWith({NotionMenuA}) /\ impl = "current"

NotionStep(r) ==
  \/ StartRun(r)
  \/ InitialCompletion(r)
  \/ NextCompletion(r)
  \/ DispatchNotionTool(r)
  \/ NotionReply(r)

NotionNext ==
  \/ \E r \in SoloRuns : NotionStep(r)
  \/ \E u \in Users : disconnectNotionAction(u)

NotionSpec == NotionInit /\ [][NotionNext]_vars

\* ------------------------------------------------------------- properties
\* the positions of a run inside the for loop
ToolPhase ==
  {"dispatch", "updateWrite", "awaitConnect", "awaitWorker", "awaitNotion"}

\* run r is in the for loop, at a call whose arguments parsed
InHandler(r) == pc[r] \in ToolPhase /\ ~JSONParseThrows(ToolCall(r).args)

\* the step ends the call the for loop is at: its tool turn is appended and
\* the loop is at the next call of the batch, or at the next completion call
CallOver(r) ==
  /\ Len(messages'[r]) = Len(messages[r]) + 1
  /\ messages'[r] =
       Append(messages[r],
              ToolTurn(ToolCall(r), messages'[r][Len(messages'[r])].content))
  /\ pc'[r] = AfterCall(idx[r], Len(assistantMessage[r].tool_calls))
  /\ pc'[r] = "dispatch" => idx'[r] = idx[r] + 1
  /\ result'[r] = result[r]

\* the step ends the call with this failure
FailsWith(r, msg) ==
  CallOver(r) /\ messages'[r][Len(messages'[r])].content = Thrown(msg)

\* some turn of the conversation tail carries this content
Answered(r, content) ==
  \E k \in 1..Len(messages[r]) :
    messages[r][k].role = "tool" /\ messages[r][k].content = content

\* C1: the iteration counter of a run only increases, never exceeds
\* maxIterations (3), and every batch of tool calls that is dispatched
\* counts one iteration, so at most 3 batches are dispatched.
IterationsBounded ==
  [][\A r \in Runs :
       /\ iterations[r] <= iterations'[r]
       /\ iterations'[r] <= maxIterations
       /\ (pc[r] = "awaitModel" /\ pc'[r] = "dispatch")
            => iterations'[r] = iterations[r] + 1]_vars

\* a run that used all its iterations and ended on a fourth model response
IterationsExhausted ==
  /\ pc[1] = "done"
  /\ result[1].response # "error"
  /\ iterations[1] = maxIterations
  /\ modelCalls[1] = maxIterations + 1

\* C2: a flag a run returns true stands for a create_note (update_note)
\* call of the run that returned success; a run whose attempts all failed
\* returns the flag false.
FlagsMeanSuccess ==
  \A r \in Runs :
    /\ result[r].noteCreated => succeeded[r].create
    /\ result[r].noteUpdated => succeeded[r].update

\* the call the for loop is at is one its handler refuses: an unknown name,
\* a Notion tool without credential, content that fails validation, an
\* update_note whose note the lookup does not find
HandlerMustThrow(r) ==
  /\ pc[r] = "dispatch"
  /\ LET call == ToolCall(r)
         route == Route(impl, call.name)
     IN \/ route = "unknown"
        \/ route = "notion" /\ NotionRejects(notionAccessToken[r])
        \/ route = "create"
             /\ CreateRejects(impl, CreateContent(impl, call.args))
        \/ route = "update"
             /\ \/ UpdateRejects(impl, UpdateContent(impl, call.args))
                \/ ~FindFirst(noteTable, call.args.noteId, getUser(r))

\* C3: when the handler of a tool call throws, the run does not end: the
\* call gets a tool turn carrying the error, and the loop is at the next
\* call of the batch or at the next completion call.
HandlerErrorsStayLocal ==
  [][\A r \in Runs :
       InHandler(r) =>
         /\ pc'[r] # "done"
         /\ result'[r] = result[r]
         /\ pc'[r] \in ToolPhase \ {"dispatch"} \/ CallOver(r)
         /\ HandlerMustThrow(r) =>
              /\ CallOver(r)
              /\ messages'[r][Len(messages'[r])].content.error]_vars

\* a batch whose first call failed and whose second call succeeded, with
\* the run at the next completion call
FailureThenSuccess ==
  /\ pc[1] = "awaitModel"
  /\ Len(messages[1]) = 3
  /\ messages[1][2].role = "tool" /\ messages[1][2].content.error
  /\ messages[1][3].role = "tool" /\ ~messages[1][3].content.error

\* C4: no step of the for loop ends the run, whatever the tool call is,
\* arguments that cannot be parsed included.
ToolCallsNeverEndRun ==
  [][\A r \in Runs :
       pc[r] \in ToolPhase => pc'[r] # "done" /\ result'[r] = result[r]]_vars

\* the completion call fails
ModelFailure == [fail |-> TRUE, content |-> "", calls |-> <<>>]

\* C5: a failing completion call, the initial one or a later one, ends the
\* run in that step with the error payload and both flags false, nothing is
\* dispatched by it, and a run that has ended stays ended.
ModelFailureEndsRun ==
  [][\A r \in Runs :
       /\ (pc[r] = "awaitModel" /\ Complete(r, ModelFailure)) =>
            /\ pc'[r] = "done"
            /\ result'[r].response = "error"
            /\ ~result'[r].noteCreated /\ ~result'[r].noteUpdated
            /\ noteTable' = noteTable
            /\ inflight'[r] = NoRequest
       /\ pc[r] = "done" => pc'[r] = "done" /\ result'[r] = result[r]]_vars

\* a run that raised noteCreated and then ended on a failing completion call
FailureAfterCreate ==
  /\ pc[1] = "done"
  /\ result[1].response = "error"
  /\ noteCreated[1]
  /\ iterations[1] >= 1

\* run r is inside update_note
InUpdateNote(r) ==
  /\ pc[r] \in {"dispatch", "updateWrite"}
  /\ ~JSONParseThrows(ToolCall(r).args)
  /\ Route(impl, ToolCall(r).name) = "update"

\* C6: a step of update_note leaves every note of another owner as it was,
\* and when the lookup by (id, authorId) finds no note the call fails with
\* the not-found error and the note table is unchanged.
UpdateKeepsToOwner ==
  [][\A r \in Runs :
       InUpdateNote(r) =>
         /\ \A n \in DOMAIN noteTable :
              noteTable[n].authorId # getUser(r) =>
                n \in DOMAIN noteTable' /\ noteTable'[n] = noteTable[n]
         /\ ( /\ pc[r] = "dispatch"
              /\ ~UpdateRejects(impl, UpdateContent(impl, ToolCall(r).args))
              /\ \/ ToolCall(r).args.noteId \notin DOMAIN noteTable
                 \/ noteTable[ToolCall(r).args.noteId].authorId # getUser(r) )
            => /\ FailsWith(r, "update_note:not found")
               /\ noteTable' = noteTable]_vars

\* an update_note aimed at the note of u2 has been answered with not found
OtherOwnerRefused ==
  /\ menu = OwnerMenu
  /\ Answered(1, Thrown("update_note:not found"))
  /\ noteTable[2] = [authorId |-> "u2", text |-> <<"c">>]

\* the positions of the tool turns that answer the call with this id
ToolTurnsOf(m, id) ==
  {k \in 1..Len(m) : m[k].role = "tool" /\ m[k].tool_call_id = id}

\* C7: every tool turn carries the id of a tool call of the most recent
\* assistant turn, no call has two tool turns, and at the next completion
\* call every call of that assistant turn has exactly one.
ToolTurnsAnswerCalls ==
  \A r \in Runs :
    LET m == messages[r]
        requested == IF m # <<>> /\ m[1].role = "assistant"
                       THEN {m[1].tool_calls[p] : p \in 1..Len(m[1].tool_calls)}
                       ELSE {}
    IN /\ \A k \in 1..Len(m) :
            m[k].role = "tool" => k > 1 /\ m[k].tool_call_id \in requested
       /\ \A id \in requested : Cardinality(ToolTurnsOf(m, id)) <= 1
       /\ (pc[r] = "awaitModel" /\ iterations[r] > 0) =>
            /\ requested # {}
            /\ \A id \in requested : Cardinality(ToolTurnsOf(m, id)) = 1

\* a batch of two calls has been answered and the next completion call is due
BatchAnswered ==
  /\ pc[1] = "awaitModel"
  /\ iterations[1] > 0
  /\ Len(messages[1]) = 3
  /\ messages[1][2].tool_call_id # messages[1][3].tool_call_id

\* C8: inside a batch the calls before the current one, and only they, have
\* their tool turns, in the order of the batch; a request is in flight only
\* for the current call; and the text update_note works on is the text the
\* note has in the store when the call runs.
BatchRunsInOrder ==
  \A r \in Runs :
    pc[r] \in ToolPhase =>
      LET calls == assistantMessage[r].tool_calls
      IN /\ idx[r] \in 1..Len(calls)
         /\ Len(messages[r]) = idx[r]
         /\ \A k \in 1..(idx[r] - 1) :
              /\ messages[r][k + 1].role = "tool"
              /\ messages[r][k + 1].tool_call_id = calls[k].id
         /\ inflight[r] # NoRequest =>
              /\ pc[r] \in {"awaitWorker", "awaitNotion"}
              /\ inflight[r].name = calls[idx[r]].name
         /\ pc[r] = "updateWrite" =>
              /\ currentNote[r].id \in DOMAIN noteTable
              /\ currentNote[r].text = noteTable[currentNote[r].id].text

\* the second update_note of a batch works on the text the first one left
SecondAppendSeesFirst ==
  /\ pc[1] = "updateWrite"
  /\ idx[1] = 2
  /\ iterations[1] = 1
  /\ currentNote[1] = [id |-> 1, text |-> <<"a", "nn", "b">>]

\* C9: the dispatch of a tool name that is not in the catalog fails with
\* the unknown-tool error, with the note table unchanged and no request to
\* the worker or to Notion.
UnknownToolFails ==
  [][\A r \in Runs :
       ( /\ pc[r] = "dispatch"
         /\ ~JSONParseThrows(ToolCall(r).args)
         /\ ToolCall(r).name \notin MCP_TOOLS(impl) )
       => /\ FailsWith(r, "mcp:Unknown MCP tool")
          /\ noteTable' = noteTable
          /\ inflight'[r] = NoRequest]_vars

\* C10: in the revision that has the Notion tools, the dispatch of a Notion
\* tool in a run without a credential fails with the not-connected error
\* and no request to Notion is ever in flight in such a run.
NotionNeedsCredential ==
  [][\A r \in Runs :
       (impl = "current" /\ notionAccessToken[r] = NoToken) =>
         /\ inflight'[r].to # "notion"
         /\ ( /\ pc[r] = "dispatch"
              /\ ~JSONParseThrows(ToolCall(r).args)
              /\ ToolCall(r).name \in NotionTools )
            => FailsWith(r, "mcp:Notion is not connected")]_vars

\* a Notion tool call of a run without a credential has been answered
NotionRefused ==
  /\ impl = "current"
  /\ notionAccessToken[1] = NoToken
  /\ menu \in {NotionMenuA, NotionMenuB}
  /\ Answered(1, Thrown("mcp:Notion is not connected"))

\* the step is the write of update_note and the call returns success
Updated(r) ==
  /\ pc[r] = "updateWrite"
  /\ CallOver(r)
  /\ messages'[r][Len(messages'[r])].content = Returned("updated")

\* C11: a successful update_note in append mode stores the note's text,
\* "\n\n" and the new content when the text was not empty, and exactly the
\* new content when the text was empty.
AppendJoinsWithSeparator ==
  [][\A r \in Runs :
       (Updated(r) /\ UpdateMode(ToolCall(r).args) = "append") =>
         LET args == ToolCall(r).args
             old == noteTable[args.noteId].text
         IN noteTable'[args.noteId].text =
              IF old = <<>> THEN args.newContent
              ELSE old \o <<"nn">> \o args.newContent]_vars

\* C12: a successful update_note in replace mode stores exactly the new
\* content, whatever the note's text was.
ReplaceStoresNewContent ==
  [][\A r \in Runs :
       (Updated(r) /\ UpdateMode(ToolCall(r).args) = "replace") =>
         noteTable'[ToolCall(r).args.noteId].text
           = ToolCall(r).args.newContent]_vars

\* a replace has been answered with success on a note whose text was
\* different at run start
ReplacedOwnNote ==
  /\ menu = ModeMenu
  /\ Answered(1, Returned("updated"))
  /\ notes[1][1] = <<"a">>
  /\ noteTable[1].text = <<"b">>

\* C13: create_note with content that is missing, empty or only whitespace
\* fails with the validation error and the note table is unchanged.
BlankCreateRejected ==
  [][\A r \in Runs :
       ( /\ pc[r] = "dispatch"
         /\ ~JSONParseThrows(ToolCall(r).args)
         /\ ToolCall(r).name = "create_note"
         /\ \/ ~Truthy(ToolCall(r).args.content)
            \/ Trim(ToolCall(r).args.content) = <<>> )
       => /\ FailsWith(r, "create_note:empty content")
          /\ noteTable' = noteTable]_vars

\* the step ends a worker call with what callMCPTool makes of this answer
WorkerAnswered(r, reply) ==
  /\ pc[r] = "awaitWorker"
  /\ CallOver(r)
  /\ messages'[r][Len(messages'[r])].content = WorkerResult(impl, reply)

\* C14: when the worker's answer holds text that cannot be parsed, the run
\* does not end, and the tool turn of the call is an error result.
UnparseableReplyFails ==
  [][\A r \in Runs :
       WorkerAnswered(r, "text") =>
         /\ pc'[r] # "done"
         /\ messages'[r][Len(messages'[r])].content.error]_vars

\* C15: a call of a worker tool that ends without a request to the worker,
\* because the worker is not configured or cannot be connected to, ends with
\* the stub result, returned and not thrown.
UnavailableWorkerGivesStub ==
  [][\A r \in Runs :
       ( /\ pc[r] \in {"dispatch", "awaitConnect"}
         /\ ~JSONParseThrows(ToolCall(r).args)
         /\ ToolCall(r).name \in mcpServerTools
         /\ pc'[r] \notin {"awaitConnect", "awaitWorker"} )
       => /\ CallOver(r)
          /\ messages'[r][Len(messages'[r])].content = Stub]_vars

ResultHasContractForm ==
  \A r \in Runs : pc[r] = "done" => result[r].kind = "json"

\* C18: at a completion call made with the counter at maxIterations the run
\* ends; when the response still requests tool calls none of them is
\* dispatched and the run returns the normal payload: the text of that
\* response (or the fallback text) and the flags as they stand.
CapEndsRunNormally ==
  [][\A r \in Runs :
       (pc[r] = "awaitModel" /\ iterations[r] = maxIterations) =>
         /\ pc'[r] = "done"
         /\ noteTable' = noteTable
         /\ inflight' = inflight
         /\ connections' = connections
         /\ dropped'[r] > 0 =>
              /\ result'[r].kind = "json"
              /\ result'[r].response \in {"text", "fallback"}
              /\ result'[r].noteCreated = noteCreated[r]
              /\ result'[r].noteUpdated = noteUpdated[r]]_vars

\* a run that ended at the cap with tool calls pending returned the text of
\* the last response and the flag its updates had raised
CappedWithText ==
  /\ pc[1] = "done"
  /\ iterations[1] = maxIterations
  /\ dropped[1] > 0
  /\ result[1].response = "text"
  /\ result[1].noteUpdated

\* C19: with every model call and every tool dispatch returning or failing,
\* every run reaches its end, whatever the model answers.
RunsTerminate == \A r \in SoloRuns : <>(pc[r] = "done")

\* a run has ended although every response of the model, the last one
\* included, requested tool calls
EndedDespiteToolCalls ==
  /\ pc[1] = "done"
  /\ modelCalls[1] = maxIterations + 1
  /\ dropped[1] = MaxBatch

\* C20: whatever the order in which concurrent runs call getMCPClient, also
\* when a second call arrives while the first connection is still being
\* established, at most one worker connection is opened, and every request
\* to the worker is made on the one client instance that opened it.
OneWorkerConnection ==
  /\ connections <= 1
  /\ \A r \in Runs :
       pc[r] \in {"awaitConnect", "awaitWorker"} =>
         mcpClientInstance.exists /\ connections = 1

\* a second run sent its request while the first was still connecting
CallerDuringConnect ==
  /\ pc[1] = "awaitConnect"
  /\ pc[2] = "awaitWorker"
  /\ connections = 1

\* C21: a request for analyze_notes that goes to the worker carries the
\* caller's notes as fetched at the start of the run, whatever note list the
\* model supplied and whatever the run has created or updated since; a
\* request for extract_entities carries the given text unchanged, and
\* without a text the texts of those fetched notes joined.
WorkerGetsFetchedNotes ==
  \A r \in SoloRuns :
    inflight[r].to = "worker" =>
      LET call == ToolCall(r)
      IN /\ call.name = "analyze_notes" => inflight[r].notes = notes[r]
         /\ call.name = "extract_entities" =>
              inflight[r].text =
                IF Truthy(call.args.text) THEN call.args.text
                ELSE JoinTexts(notes[r])

\* analyze_notes is with the worker after an update of this run succeeded:
\* the list sent is neither the model's nor the store's present one
AnalyzeAfterUpdate ==
  /\ pc[1] = "awaitWorker"
  /\ ToolCall(1).name = "analyze_notes"
  /\ succeeded[1].update
  /\ inflight[1].notes # ToolCall(1).args.notes
  /\ inflight[1].notes # FindMany(noteTable, getUser(1))

\* the properties present in the parsed arguments of a tool call
Present(args) ==
  {f \in {"content", "newContent", "text", "notes"} : args[f] # Undef}
  \cup (IF args.noteId # 0 THEN {"noteId"} ELSE {})
  \cup (IF args.mode # "undefined" THEN {"mode"} ELSE {})

\* the arguments of a call have every property its descriptor requires
SchemaValid(call) == Required(call.name) \subseteq Present(call.args)

\* C22: a call whose (parseable) arguments lack a property its descriptor
\* requires is over in the step that dispatches it: nothing is stored, no
\* request goes to the worker or to Notion, no connection is opened, and its
\* tool turn carries the error while the run goes on.
InvalidArgumentsRejected ==
  [][\A r \in SoloRuns :
       ( /\ pc[r] = "dispatch"
         /\ ~JSONParseThrows(ToolCall(r).args)
         /\ ~SchemaValid(ToolCall(r))
         /\ <<pc[r], idx[r]>> # <<pc'[r], idx'[r]>> )
       => /\ CallOver(r)
          /\ pc'[r] # "done"
          /\ messages'[r][Len(messages'[r])].content.error
          /\ noteTable' = noteTable
          /\ connections' = connections]_vars

\* run q takes this step
Acts(q) == <<pc[q], idx[q], modelCalls[q]>> # <<pc'[q], idx'[q], modelCalls'[q]>>

\* C23: a step of one run, a dispatched create_note or update_note
\* included, leaves the flags and the message history of every other run
\* as they are.
FlagsAreRunLocal ==
  [][\A q \in Runs : \A r \in Runs \ {q} :
       Acts(q) => /\ noteCreated'[r] = noteCreated[r]
                  /\ noteUpdated'[r] = noteUpdated[r]
                  /\ messages'[r] = messages[r]]_vars

\* one run has created a note while the other, in its own batch, has not
\* dispatched anything yet
OtherRunCreated ==
  /\ pc[1] = "dispatch" /\ idx[1] = 1
  /\ ~noteCreated[1]
  /\ noteCreated[2] /\ succeeded[2].create
  /\ Len(messages[2]) > Len(messages[1])

\* how often token t occurs in a text
RECURSIVE Occurrences(_, _)
Occurrences(text, t) ==
  IF text = <<>> THEN 0
  ELSE (IF Head(text) = t THEN 1 ELSE 0) + Occurrences(Tail(text), t)

\* the update_note calls of run r's batch that returned success so far
Appended(r) ==
  Cardinality({i \in DOMAIN messages[r] :
                 /\ messages[r][i].role = "tool"
                 /\ messages[r][i].content = Returned("updated")})

\* C26: when the runs of a user only append to a note, every append that
\* returned success is in the note's text: the text holds the appended
\* content as many times as appends have succeeded.
NoAppendLost ==
  (menu = AppendMenu /\ 1 \in DOMAIN noteTable) =>
    Occurrences(noteTable[1].text, "b") >= Appended(1) + Appended(2)

\* a step of the beforeExit handler: no run moves
ExitHandlerRan ==
  /\ pc' = pc /\ idx' = idx
  /\ <<teardown', mcpClientInstance'>> # <<teardown, mcpClientInstance>>

\* C24: the beforeExit handler, run when there is no instance or when the
\* instance holds no client (never connected, or disconnected before),
\* changes nothing and ends without an error; when it has closed the client,
\* the instance holds no client and is not connected.
TeardownIsSafe ==
  [][ExitHandlerRan =>
       IF ~mcpClientInstance.exists \/ ~mcpClientInstance.client
         THEN mcpClientInstance' = mcpClientInstance /\ teardown' = "skipped"
         ELSE teardown' = "closed" =>
                /\ ~mcpClientInstance'.isConnected
                /\ ~mcpClientInstance'.client]_vars

\* the handler has closed the connection a run had opened
ClosedAtExit ==
  /\ teardown = "closed"
  /\ connections = 1
  /\ pc[1] = "done"
  /\ ~mcpClientInstance.isConnected

\* C25: a run that has returned a payload with both flags false has neither
\* created nor updated a note, also when the payload is the one returned
\* after a failure.
FalseFlagsMeanNoChange ==
  \A r \in Runs :
    ( /\ pc[r] = "done"
      /\ result[r].kind = "json"
      /\ ~result[r].noteCreated
      /\ ~result[r].noteUpdated )
    => ~succeeded[r].create /\ ~succeeded[r].update

\* C27: a caller of getMCPClient either waits for the connection it opens
\* or gets a client that is connected, so its callTool is made on a connected
\* client; and a caller that finds the instance of a failed connection
\* opens the connection again.
ReturnedClientIsConnected ==
  [][\A r \in Runs :
       ( /\ impl = "current"
         /\ pc[r] = "dispatch"
         /\ ~JSONParseThrows(ToolCall(r).args)
         /\ ToolCall(r).name \in mcpServerTools
         /\ Acts(r) )
       => /\ pc'[r] # "awaitConnect" => mcpClientInstance.isConnected
          /\ ( /\ mcpClientInstance.exists
               /\ ~mcpClientInstance.isConnected
               /\ ~Connecting ) => connections' = connections + 1]_vars

\* C28: a call of a notes action that changes the text of a note, or
\* deletes the note, is a call by the note's owner.
OnlyOwnerChangesNote ==
  [][\A n \in DOMAIN noteTable :
       (n \notin DOMAIN noteTable' \/ noteTable'[n].text # noteTable[n].text)
       => caller' = noteTable[n].authorId]_vars

\* C29: a run that starts when the user's Notion credential is gone has
\* none; a run keeps the credential it read at its start whatever happens to
\* the user's row afterwards; and each Notion call of a run acts on that
\* credential alone: without one it fails with the not-connected error and
\* makes no request, with one it makes its request.
CredentialReadOnce ==
  [][\A r \in SoloRuns :
       /\ ( /\ pc[r] = "idle" /\ pc'[r] # "idle"
            /\ userTable[getUser(r)] = NoToken )
          => notionAccessToken'[r] = NoToken
       /\ pc[r] # "idle" => notionAccessToken'[r] = notionAccessToken[r]
       /\ ( /\ pc[r] = "dispatch"
            /\ ~JSONParseThrows(ToolCall(r).args)
            /\ ToolCall(r).name \in NotionTools
            /\ Acts(r) )
          => IF notionAccessToken[r] = NoToken
               THEN /\ CallOver(r)
                    /\ messages'[r][Len(messages'[r])].content =
                         Thrown("mcp:Notion is not connected")
                    /\ inflight' = inflight
               ELSE /\ pc'[r] = "awaitNotion"
                    /\ inflight'[r].to = "notion"]_vars

\* a run that read the credential has a Notion request under way after the
\* user disconnected Notion
RequestAfterDisconnect ==
  /\ pc[1] = "awaitNotion"
  /\ notionAccessToken[1] # NoToken
  /\ userTable[getUser(1)] = NoToken
  /\ caller = getUser(1)
  /\ iterations[1] >= 2

\* the step is a completion call of run r that failed
ModelFailsNow(r) ==
  /\ modelCalls'[r] = modelCalls[r] + 1
  /\ result'[r].response = "error"

\* C30: a run never makes more than maxIterations + 1 completion calls, and
\* a run that has called the model and ends without a failed completion call
\* has made one call more than the batches of tool calls it dispatched (a
\* batch counts from its first dispatched call on).
ModelCallsMatchBatches ==
  [][\A r \in Runs :
       /\ modelCalls'[r] <= maxIterations + 1
       /\ ( /\ pc[r] # "done" /\ pc'[r] = "done"
            /\ modelCalls'[r] >= 1
            /\ ~ModelFailsNow(r)
            /\ ~(pc[r] = "dispatch" /\ idx[r] = 1) )
          => modelCalls'[r] = iterations'[r] + 1]_vars


====
